---- MODULE Spec2Model ----
(***************************************************************************)
(* RGBImage, the observation wrapper of smarts/env/wrappers/rgb_image.py:  *)
(* its constructor and its observation() hook, over an environment of two  *)
(* agents whose RGB sensors render small images.                           *)
(***************************************************************************)
EXTENDS Integers, Sequences, FiniteSets, TLC

VARIABLES
    agent_specs,        \* env.agent_specs: agent id -> interface.rgb
    frame_kinds,        \* the image patterns the environment's sensors render
    wrappers,           \* the wrapper objects built over the environment
    pc,                 \* "new" | "ready" | "failed" (the constructor raised)
    init_error,         \* what the constructor raised, "" when nothing
    num_stack,          \* self._num_stack
    observation_space,  \* self.observation_space
    obs_in,             \* per wrapper: the mapping passed to the last call
    obs,                \* per wrapper: the caller's mapping after that call
    result,             \* per wrapper: the outcome of the last call
    plot,               \* per wrapper: the subplot grid the last call drew
    failed_before,      \* per wrapper: an earlier call raised
    num_stack_arg       \* the num_stack the constructor was called with

vars == <<agent_specs, frame_kinds, wrappers, pc, init_error, num_stack,
          observation_space, obs_in, obs, result, plot, failed_before,
          num_stack_arg>>

-----------------------------------------------------------------------------
(* Bounds and program constants *)

\* The largest num_stack, and the longest frame sequence, that is tried.
MaxStack == 2

\* Channels of one RGB image (the 3 of 3 * self._num_stack).
RGBChannels == 3

\* np.uint8 holds 0 .. 255: the cast reduces modulo 256.
Uint8Range == 256

\* low and high of the declared gym.spaces.Box.
BoxLow == 0

BoxHigh == 255

\* The agents of the environment, in the order of agent_specs.keys().
AgentOrder == <<"a1", "a2">>

Agents == {AgentOrder[i] : i \in 1..Len(AgentOrder)}

\* interface.rgb: falsy when the RGB sensor is not configured, else its size.
NoRGB == [on |-> FALSE]

RGB(w, h) == [on |-> TRUE, width |-> w, height |-> h]

\* The sensor each agent carries when its interface enables RGB.
SensorOf == [a \in Agents |-> IF a = AgentOrder[1] THEN RGB(2, 1) ELSE RGB(1, 2)]

\* The environments: every agent with its sensor, or with none.
AgentSpecs == {s \in [Agents -> {NoRGB} \cup {SensorOf[a] : a \in Agents}] :
                 \A a \in Agents : s[a] \in {NoRGB, SensorOf[a]}}

\* An attribute of the wrapper object: not assigned yet, or assigned.
Unset == [set |-> FALSE]

Attr(v) == [set |-> TRUE, val |-> v]

-----------------------------------------------------------------------------
(* numpy arrays of three axes, indexed from 0 *)

Index(shape) == (0..(shape[1] - 1)) \X (0..(shape[2] - 1)) \X (0..(shape[3] - 1))

\* a[:, :, lo:hi]
ChannelSlice(a, lo, hi) ==
    [shape |-> <<a.shape[1], a.shape[2], hi - lo>>,
     at |-> [p \in Index(<<a.shape[1], a.shape[2], hi - lo>>) |->
                a.at[<<p[1], p[2], p[3] + lo>>]]]

\* The image an RGB sensor of size w x h renders, by pattern.  "black" and
\* "ramp" are 8-bit images; "wide" holds values below 0, in 0..255 and
\* above 255.
Pixel(kind, p) ==
    CASE kind = "black" -> 0
      [] kind = "ramp"  -> 255 - 100 * p[3] - 10 * p[1] - p[2]
      [] kind = "wide"  -> 200 * p[3] - 1 - p[1] - 2 * p[2]

SensorImage(kind, w, h) ==
    [shape |-> <<w, h, RGBChannels>>,
     at |-> [p \in Index(<<w, h, RGBChannels>>) |-> Pixel(kind, p)]]

\* One sensor reading: agent_ob.top_down_rgb.data is the image.
Reading(img) == [top_down_rgb |-> [data |-> img]]

-----------------------------------------------------------------------------
(* The observation mapping: per agent absent, a single reading, or a       *)
(* sequence of readings                                                    *)

Absent == [kind |-> "absent"]

Single(r) == [kind |-> "single", reading |-> r]

Stacked(fs) == [kind |-> "seq", frames |-> fs]

Keys(d) == {a \in Agents : d[a].kind # "absent"}

EmptyDict == [a \in Agents |-> Absent]

\* The keys of d in iteration order.
RECURSIVE KeysFrom(_, _)
KeysFrom(d, i) ==
    IF i > Len(AgentOrder) THEN <<>>
    ELSE IF d[AgentOrder[i]].kind = "absent" THEN KeysFrom(d, i + 1)
    ELSE <<AgentOrder[i]>> \o KeysFrom(d, i + 1)

Items(d) == KeysFrom(d, 1)

\* The readings agent a's sensor can deliver in this environment.
Readings(a) ==
    IF agent_specs[a].on
    THEN {Reading(SensorImage(k, agent_specs[a].width, agent_specs[a].height)) :
            k \in frame_kinds}
    ELSE {}

SeqsUpTo(S, n) == UNION {[1..m -> S] : m \in 0..n}

\* What the environment can hand over for agent a in one step.
AgentObs(a) ==
    {Absent} \cup {Single(r) : r \in Readings(a)}
             \cup {Stacked(fs) : fs \in SeqsUpTo(Readings(a), MaxStack)}

\* The mappings the environment can pass to observation() in one step.
Observations ==
    {[a \in Agents |-> IF a = AgentOrder[1] THEN x ELSE y] :
        x \in AgentObs(AgentOrder[1]), y \in AgentObs(AgentOrder[2])}

-----------------------------------------------------------------------------
(* __init__ *)

\* Mutant of Box: the shape declared as (height, width, 3 * num_stack).
BoxTransposed(rgb, ns) ==
    [low |-> BoxLow, high |-> BoxHigh,
     shape |-> <<rgb.height, rgb.width, RGBChannels * ns>>, dtype |-> "uint8"]

\* gym.spaces.Box(low=0, high=255, shape=(width, height, 3 * num_stack)).
Box(rgb, ns) ==
    [low |-> BoxLow, high |-> BoxHigh,
     shape |-> <<rgb.width, rgb.height, RGBChannels * ns>>, dtype |-> "uint8"]

\* Mutant of RGBImageInit: agents without RGB are left out of the space
\* instead of failing the constructor.
RGBImageInitSkipsMissing(specs, ns) ==
    IF ~(ns > 0)
    THEN [pc |-> "failed", error |-> "AssertionError: num_stack",
          num_stack |-> Attr(ns), observation_space |-> Unset]
    ELSE [pc |-> "ready", error |-> "",
          num_stack |-> Attr(ns),
          observation_space |->
              Attr([a \in {b \in Agents : specs[b].on} |-> Box(specs[a], ns)])]

\* Mutant of RGBImageInit: the assertion reads num_stack >= 0.
RGBImageInitAllowsZero(specs, ns) ==
    IF \E a \in Agents : ~specs[a].on
    THEN [pc |-> "failed", error |-> "AssertionError: rgb",
          num_stack |-> Unset, observation_space |-> Unset]
    ELSE IF ~(ns >= 0)
    THEN [pc |-> "failed", error |-> "AssertionError: num_stack",
          num_stack |-> Attr(ns), observation_space |-> Unset]
    ELSE [pc |-> "ready", error |-> "",
          num_stack |-> Attr(ns),
          observation_space |-> Attr([a \in Agents |-> Box(specs[a], ns)])]

\* The constructor: the state of the object it leaves, and what it raised.
RGBImageInit(specs, ns) ==
    IF \E a \in Agents : ~specs[a].on
    THEN [pc |-> "failed", error |-> "AssertionError: rgb",
          num_stack |-> Unset, observation_space |-> Unset]
    ELSE IF ~(ns > 0)
    THEN [pc |-> "failed", error |-> "AssertionError: num_stack",
          num_stack |-> Attr(ns), observation_space |-> Unset]
    ELSE [pc |-> "ready", error |-> "",
          num_stack |-> Attr(ns),
          observation_space |-> Attr([a \in Agents |-> Box(specs[a], ns)])]

-----------------------------------------------------------------------------
(* observation() *)

\* isinstance(agent_obs, Sequence)
IsSequence(agent_obs) == agent_obs.kind = "seq"

\* true_num_stack: the length of a sequence, 1 for a single reading.
TrueNumStack(agent_obs) ==
    IF IsSequence(agent_obs) THEN Len(agent_obs.frames) ELSE 1

\* Mutant of StackMatches: the assertion reads num_stack >= true_num_stack.
StackAtMost(ns, agent_obs) == ns >= TrueNumStack(agent_obs)

\* assert self._num_stack == true_num_stack
StackMatches(ns, agent_obs) == ns = TrueNumStack(agent_obs)

\* Mutant of AsList: a single reading is not wrapped, and the frame loop
\* finds no frame in it.
AsListNoWrap(agent_obs) ==
    IF IsSequence(agent_obs) THEN agent_obs.frames ELSE <<>>

\* The local agent_obs the frame loop runs over: a single reading is wrapped
\* into a one-element list.
AsList(agent_obs) ==
    IF IsSequence(agent_obs) THEN agent_obs.frames ELSE <<agent_obs.reading>>

\* Mutant of AsTypeUint8: the cast saturates at 0 and 255.
AsTypeSaturate(image) ==
    [shape |-> image.shape,
     at |-> [p \in DOMAIN image.at |->
                IF image.at[p] < 0 THEN 0
                ELSE IF image.at[p] >= Uint8Range THEN Uint8Range - 1
                ELSE image.at[p]]]

\* image.astype(np.uint8): a new array, every integer reduced modulo 256.
AsTypeUint8(image) ==
    [shape |-> image.shape,
     at |-> [p \in DOMAIN image.at |-> image.at[p] % Uint8Range]]

\* images, the list the frame loop appends to, in the order of agent_obs.
Images(frames) ==
    [i \in 1..Len(frames) |-> AsTypeUint8(frames[i].top_down_rgb.data)]

\* Mutant of ObsAfterAgent: the list and the cast images are written back
\* into the caller's mapping.
ObsAfterAgentInPlace(o, agent_id) ==
    [o EXCEPT ![agent_id] =
        Stacked([i \in 1..Len(AsList(o[agent_id])) |->
                    Reading(Images(AsList(o[agent_id]))[i])])]

\* obs[agent_id] in the caller's mapping once agent_id is processed: the list
\* is bound to the local name only and astype returns a new array, so the
\* mapping is as it was passed.
ObsAfterAgent(o, agent_id) == o

\* Two arrays joined along the third axis, a's channels first.
DStack2(a, b) ==
    [shape |-> <<a.shape[1], a.shape[2], a.shape[3] + b.shape[3]>>,
     at |-> [p \in Index(<<a.shape[1], a.shape[2], a.shape[3] + b.shape[3]>>) |->
                IF p[3] < a.shape[3] THEN a.at[p]
                ELSE b.at[<<p[1], p[2], p[3] - a.shape[3]>>]]]

RECURSIVE DStackFrom(_, _)
DStackFrom(images, i) ==
    IF i = Len(images) THEN images[i]
    ELSE DStack2(images[i], DStackFrom(images, i + 1))

RECURSIVE DStackDownFrom(_, _)
DStackDownFrom(images, i) ==
    IF i = 1 THEN images[i]
    ELSE DStack2(images[i], DStackDownFrom(images, i - 1))

\* Mutant of DStack: the newest frame's channels come first.
DStackReversed(images) ==
    IF images = <<>> THEN [error |-> "ValueError"]
    ELSE [error |-> "", array |-> DStackDownFrom(images, Len(images))]

\* Mutant of DStack: only the last image appended is kept.
DStackLastOnly(images) ==
    IF images = <<>> THEN [error |-> "ValueError"]
    ELSE [error |-> "", array |-> images[Len(images)]]

\* np.dstack(images): ValueError for no array, or arrays whose first two axes
\* differ.
DStack(images) ==
    IF \/ images = <<>>
       \/ \E i, j \in 1..Len(images) :
            <<images[i].shape[1], images[i].shape[2]>> #
            <<images[j].shape[1], images[j].shape[2]>>
    THEN [error |-> "ValueError"]
    ELSE [error |-> "", array |-> DStackFrom(images, 1)]

\* Mutant of InitialWrappedObs: wrapped_obs is kept on the wrapper between
\* calls.
InitialWrappedObsStale(w) ==
    IF result[w].status = "ok" THEN result[w].value ELSE EmptyDict

\* wrapped_obs = {} at the start of a call of wrapper w.
InitialWrappedObs(w) == EmptyDict

\* The loop over obs.items(), from the agents still to do: the first failing
\* assertion or dstack ends the call.  acc holds wrapped_obs and the caller's
\* mapping.
RECURSIVE ObservationLoop(_, _, _, _)
ObservationLoop(ns, items, o, acc) ==
    IF items = <<>> THEN acc
    ELSE LET agent_id == Head(items)
             agent_obs == o[agent_id]
             seen == [acc EXCEPT !.obs = ObsAfterAgent(acc.obs, agent_id)]
         IN  IF ~StackMatches(ns, agent_obs)
             THEN [seen EXCEPT !.error = "AssertionError"]
             ELSE LET stacked_images == DStack(Images(AsList(agent_obs)))
                  IN  IF stacked_images.error # ""
                      THEN [seen EXCEPT !.error = stacked_images.error]
                      ELSE ObservationLoop(ns, Tail(items), o,
                             [seen EXCEPT !.wrapped_obs[agent_id] =
                                [kind |-> "array",
                                 array |-> stacked_images.array]])

\* The debugging figure: one row per agent of wrapped_obs, one column per
\* stacked frame, one subplot per cell.
Figure(wrapped_obs, ns) ==
    [drawn |-> TRUE,
     rows |-> Cardinality(Keys(wrapped_obs)),
     columns |-> ns,
     subplots |-> Cardinality(Keys(wrapped_obs)) * ns]

NoFigure == [drawn |-> FALSE]

NoCall == [status |-> "none"]

\* observation(obs) on wrapper w: what it returns or raises, the caller's
\* mapping afterwards, and the figure it showed.
RGBImageObservation(w, o) ==
    LET done == ObservationLoop(num_stack.val, Items(o), o,
                    [error |-> "", wrapped_obs |-> InitialWrappedObs(w),
                     obs |-> o])
    IN  IF done.error # ""
        THEN [outcome |-> [status |-> done.error], obs |-> done.obs,
              plot |-> NoFigure]
        ELSE [outcome |-> [status |-> "ok", value |-> done.wrapped_obs],
              obs |-> done.obs,
              plot |-> Figure(done.wrapped_obs, num_stack.val)]

Raised(outcome) == outcome.status \notin {"none", "ok"}

-----------------------------------------------------------------------------
(* Specifications *)

\* An environment rendering the image patterns kinds, and the wrappers ws
\* still to be constructed over it.
InitEnv(kinds, ws) ==
    /\ agent_specs \in AgentSpecs
    /\ frame_kinds = kinds
    /\ wrappers = ws
    /\ pc = "new"
    /\ init_error = ""
    /\ num_stack_arg = Unset
    /\ num_stack = Unset
    /\ observation_space = Unset
    /\ obs_in = [w \in ws |-> EmptyDict]
    /\ obs = [w \in ws |-> EmptyDict]
    /\ result = [w \in ws |-> NoCall]
    /\ plot = [w \in ws |-> NoFigure]
    /\ failed_before = [w \in ws |-> FALSE]

\* RGBImage(env, ns), for every wrapper of the run alike.
Construct(ns) ==
    /\ pc = "new"
    /\ LET self == RGBImageInit(agent_specs, ns)
       IN  /\ pc' = self.pc
           /\ init_error' = self.error
           /\ num_stack' = self.num_stack
           /\ observation_space' = self.observation_space
    /\ num_stack_arg' = Attr(ns)
    /\ UNCHANGED <<agent_specs, frame_kinds, wrappers, obs_in, obs, result,
                   plot, failed_before>>

\* w.observation(o)
Observation(w, o) ==
    /\ pc = "ready"
    /\ \E r \in {RGBImageObservation(w, o)} :
           /\ obs_in' = [obs_in EXCEPT ![w] = o]
           /\ obs' = [obs EXCEPT ![w] = r.obs]
           /\ result' = [result EXCEPT ![w] = r.outcome]
           /\ plot' = [plot EXCEPT ![w] = r.plot]
    /\ failed_before' =
          [failed_before EXCEPT ![w] = failed_before[w] \/ Raised(result[w])]
    /\ UNCHANGED <<agent_specs, frame_kinds, wrappers, pc, init_error,
                   num_stack_arg, num_stack, observation_space>>

Next ==
    \/ \E ns \in -1..MaxStack : Construct(ns)
    \/ \E w \in wrappers : \E o \in Observations \ {EmptyDict} :
            Observation(w, o)
    \/ \E w \in wrappers : Observation(w, EmptyDict)

\* One wrapper over sensors that render 8-bit images.
Init == InitEnv({"black", "ramp"}, {1})

Spec == Init /\ [][Next]_vars

\* One wrapper over image buffers that hold integers outside 0..255 too.
InitWide == InitEnv({"ramp", "wide"}, {1})

SpecWide == InitWide /\ [][Next]_vars

\* Two wrappers built alike over one environment, called independently.
InitPair == InitEnv({"ramp"}, {1, 2})

SpecPair == InitPair /\ [][Next]_vars

-----------------------------------------------------------------------------
(* Properties *)

Called(w) == result[w].status # "none"

Returned(w) == result[w].status = "ok"

\* The frames of one agent's observation as the claims count them.
FramesOf(v) == IF v.kind = "seq" THEN v.frames ELSE <<v.reading>>

\* The shape the constructor's arguments call for.
DeclaredShape(a) ==
    <<agent_specs[a].width, agent_specs[a].height, 3 * num_stack_arg.val>>

\* C1: after a successful call on a wrapper built with num_stack = k, for
\* every agent whose observation was a sequence of exactly k frames, channels
\* 3i .. 3i+2 of the returned array are frame i's RGB image, for every i in
\* 0 .. k-1: the frames lie along the channel axis in the order of the input
\* sequence, none dropped, duplicated or reordered.
C1_FramesInSequenceOrder ==
    \A w \in wrappers : \A a \in Agents :
        (/\ Returned(w)
         /\ obs_in[w][a].kind = "seq"
         /\ Len(obs_in[w][a].frames) = num_stack_arg.val)
        => /\ result[w].value[a].kind = "array"
           /\ \A i \in 0..(num_stack_arg.val - 1) :
                ChannelSlice(result[w].value[a].array, 3 * i, 3 * i + 3)
                    = obs_in[w][a].frames[i + 1].top_down_rgb.data

C1_Witness ==
    \E w \in wrappers : \E a \in Agents :
        /\ Returned(w)
        /\ num_stack_arg.val = 2
        /\ obs_in[w][a].kind = "seq"
        /\ obs_in[w][a].frames[1] # obs_in[w][a].frames[2]

\* C2: every successful call on a wrapper built with num_stack = k returns,
\* for each agent of the input, one array of shape (width, height, 3k), with
\* the width and height of that agent's configured RGB sensor.
C2_ShapeWidthHeight3k ==
    \A w \in wrappers :
        Returned(w) =>
            \A a \in Keys(obs_in[w]) :
                /\ result[w].value[a].kind = "array"
                /\ result[w].value[a].array.shape = DeclaredShape(a)
                /\ DOMAIN result[w].value[a].array.at = Index(DeclaredShape(a))

C2_Witness ==
    \E w \in wrappers :
        /\ Returned(w)
        /\ num_stack_arg.val = 2
        /\ Keys(obs_in[w]) = Agents

\* C3: a call in which some agent's observation has a number of frames other
\* than num_stack (a sequence of another length, or a single reading when
\* num_stack is not 1) raises the assertion's error and returns no mapping,
\* whatever agents were processed before.
C3_FrameCountMismatchFails ==
    \A w \in wrappers :
        (/\ Called(w)
         /\ \E a \in Keys(obs_in[w]) :
                Len(FramesOf(obs_in[w][a])) # num_stack_arg.val)
        => result[w] = [status |-> "AssertionError"]

C3_Witness ==
    \E w \in wrappers :
        /\ Called(w)
        /\ Keys(obs_in[w]) = Agents
        /\ Len(FramesOf(obs_in[w][AgentOrder[1]])) = num_stack_arg.val
        /\ Len(FramesOf(obs_in[w][AgentOrder[2]])) # num_stack_arg.val
        /\ result[w].status = "AssertionError"

\* C4: constructing the wrapper over an environment in which some agent has
\* no RGB sensor configured fails on the RGB assertion, whatever the other
\* agents' configuration and whatever num_stack is, and no observation space
\* is derived.
C4_MissingRGBFailsConstruction ==
    (pc # "new" /\ \E a \in Agents : ~agent_specs[a].on)
    => /\ pc = "failed"
       /\ init_error = "AssertionError: rgb"
       /\ observation_space = Unset

C4_Witness ==
    /\ pc = "failed"
    /\ num_stack_arg.val > 0
    /\ agent_specs[AgentOrder[1]].on
    /\ ~agent_specs[AgentOrder[2]].on

\* C5: constructing with num_stack <= 0 fails and derives no observation
\* space; construction succeeds exactly when num_stack > 0 and every agent
\* has RGB configured, and then exposes per agent a box of shape
\* (width, height, 3 * num_stack) with bounds 0 and 255.
C5_ConstructionContract ==
    pc # "new" =>
        /\ num_stack_arg.val <= 0 =>
              /\ pc = "failed"
              /\ init_error # ""
              /\ observation_space = Unset
        /\ pc = "ready" <=>
              (num_stack_arg.val > 0 /\ \A a \in Agents : agent_specs[a].on)
        /\ pc = "ready" =>
              /\ observation_space.set
              /\ DOMAIN observation_space.val = Agents
              /\ \A a \in Agents :
                    /\ observation_space.val[a].shape = DeclaredShape(a)
                    /\ observation_space.val[a].low = 0
                    /\ observation_space.val[a].high = 255

C5_Witness ==
    /\ pc = "failed"
    /\ num_stack_arg.val = 0
    /\ \A a \in Agents : agent_specs[a].on

\* Every element of array lies within the bounds of box.
WithinBox(array, box) ==
    \A p \in DOMAIN array.at : array.at[p] >= box.low /\ array.at[p] <= box.high

\* C6, as claimed: every mapping a successful call returns has an entry for
\* exactly the agents of the declared observation space, each of the declared
\* shape, with all elements within the declared bounds.
C6_ReturnMatchesDeclaredSpace ==
    \A w \in wrappers :
        Returned(w) =>
            /\ Keys(result[w].value) = DOMAIN observation_space.val
            /\ \A a \in DOMAIN observation_space.val :
                  /\ result[w].value[a].kind = "array"
                  /\ result[w].value[a].array.shape =
                        observation_space.val[a].shape
                  /\ WithinBox(result[w].value[a].array,
                               observation_space.val[a])

\* C6, amended: every mapping a successful call returns has an entry for
\* exactly the agents of the input mapping, all of them agents of the
\* declared observation space; each entry has the shape declared for that
\* agent and all elements within the declared bounds.
C6_ReturnMatchesSpaceOnInputAgents ==
    \A w \in wrappers :
        Returned(w) =>
            /\ Keys(result[w].value) = Keys(obs_in[w])
            /\ Keys(result[w].value) \subseteq DOMAIN observation_space.val
            /\ \A a \in Keys(result[w].value) :
                  /\ result[w].value[a].kind = "array"
                  /\ result[w].value[a].array.shape =
                        observation_space.val[a].shape
                  /\ WithinBox(result[w].value[a].array,
                               observation_space.val[a])

C6_Witness ==
    \E w \in wrappers :
        /\ Returned(w)
        /\ Keys(result[w].value) = {AgentOrder[1]}
        /\ obs_in[w][AgentOrder[1]].kind = "seq"
        /\ obs_in[w][AgentOrder[2]].kind = "absent"
        /\ num_stack_arg.val = 2

\* The source pixel behind position p of the array returned for v.
SourcePixel(v, p) ==
    FramesOf(v)[(p[3] \div 3) + 1].top_down_rgb.data.at[<<p[1], p[2], p[3] % 3>>]

\* C7: every element of every returned array is in 0 .. 255 and matches its
\* source pixel: a source value in 0 .. 255 is returned unchanged, an integer
\* outside that range is returned reduced modulo 256.
C7_ElementsAreUint8OfSource ==
    \A w \in wrappers :
        Returned(w) =>
            \A a \in Keys(result[w].value) :
                \A p \in DOMAIN result[w].value[a].array.at :
                    /\ result[w].value[a].array.at[p] \in 0..255
                    /\ SourcePixel(obs_in[w][a], p) \in 0..255 =>
                          result[w].value[a].array.at[p] =
                              SourcePixel(obs_in[w][a], p)
                    /\ SourcePixel(obs_in[w][a], p) \notin 0..255 =>
                          result[w].value[a].array.at[p] =
                              SourcePixel(obs_in[w][a], p) % 256

C7_Witness ==
    \E w \in wrappers : \E a \in Agents :
        /\ Returned(w)
        /\ a \in Keys(result[w].value)
        /\ \E p, q, r \in DOMAIN result[w].value[a].array.at :
              /\ SourcePixel(obs_in[w][a], p) < 0
              /\ SourcePixel(obs_in[w][a], q) > 255
              /\ SourcePixel(obs_in[w][a], r) \in 0..255

\* The mapping o with every single reading R replaced by the sequence [R].
Listed(o) ==
    [a \in Agents |->
        IF o[a].kind = "single" THEN Stacked(<<o[a].reading>>) ELSE o[a]]

\* C8: a single reading R is treated as the one-element sequence [R].  With
\* num_stack = 1 a call on a mapping holding single readings has the outcome
\* of the call on the mapping with each R replaced by [R]; with num_stack > 1
\* a call on a mapping holding a single reading fails the frame-count check.
C8_SingleReadingIsOneFrame ==
    \A w \in wrappers :
        (Called(w) /\ \E a \in Agents : obs_in[w][a].kind = "single")
        => IF num_stack_arg.val = 1
           THEN result[w] = RGBImageObservation(w, Listed(obs_in[w])).outcome
           ELSE result[w] = [status |-> "AssertionError"]

C8_Witness ==
    \E w \in wrappers :
        /\ Returned(w)
        /\ num_stack_arg.val = 1
        /\ obs_in[w][AgentOrder[1]].kind = "single"
        /\ obs_in[w][AgentOrder[2]].kind = "seq"

\* C9: the stack count and the declared observation space are set by the
\* constructor and left as they are by every call of observation(), whether
\* it returns or raises; and after a call the caller's mapping is the one
\* that was passed, keys, values and source images alike.
C9_CallLeavesWrapperAndInput ==
    [][pc # "new" =>
        /\ num_stack' = num_stack
        /\ observation_space' = observation_space
        /\ obs' = obs_in']_vars

C9_Witness ==
    \E w \in wrappers :
        /\ Returned(w)
        /\ failed_before[w]
        /\ obs[w][AgentOrder[1]].kind = "single"
        /\ \E p \in DOMAIN obs[w][AgentOrder[1]].reading.top_down_rgb.data.at :
              obs[w][AgentOrder[1]].reading.top_down_rgb.data.at[p] < 0

\* C10: two wrappers built with the same num_stack whose last calls had the
\* same input have the same outcome, whatever calls each served before,
\* failed ones included.
C10_OutcomeIndependentOfHistory ==
    \A w1, w2 \in wrappers :
        (Called(w1) /\ Called(w2) /\ obs_in[w1] = obs_in[w2])
        => result[w1] = result[w2]

C10_Witness ==
    \E w1, w2 \in wrappers :
        /\ w1 # w2
        /\ Returned(w1)
        /\ Returned(w2)
        /\ obs_in[w1] = obs_in[w2]
        /\ Keys(obs_in[w1]) # {}
        /\ failed_before[w1]
        /\ ~failed_before[w2]

====
